---- MODULE Spec2Model ----
(***************************************************************************)
(* A model of the parsing frontend of t-lark: the grammar data model       *)
(* (lark/grammar.py), the template augmentation pass, the template         *)
(* tokenizer (lark/template_mode.py) and the core / template frontends     *)
(* (lark/parser_frontends.py).                                             *)
(*                                                                         *)
(* Names (of symbols, labels, terminals) are sequences of characters; the  *)
(* fixed prefixes and keywords the code tests with startswith or ==        *)
(* ("TREE__", "PYOBJ__", "PYOBJ", "NUMBER") are kept as one element.       *)
(* Python's None, and the empty string the code treats like it in          *)
(* "x or y" and "if not x", is the empty sequence.                         *)
(***************************************************************************)
EXTENDS Integers, Sequences, FiniteSets, TLC

None == <<>>

(* ---------------------------------------------------------------------- *)
(* Bounds of the model                                                     *)
(* ---------------------------------------------------------------------- *)
MaxRules == 3
MaxFrontends == 2
MaxInterp == 1
MaxDepth == 2
MaxChildren == 2
MaxLevel == 3
MaxLexCalls == 2

(* ---------------------------------------------------------------------- *)
(* Generic helpers                                                         *)
(* ---------------------------------------------------------------------- *)
Range(s) == {s[i] : i \in 1..Len(s)}

Max(S, default) == IF S = {} THEN default ELSE CHOOSE m \in S : \A x \in S : x <= m

PermsOf(S) == {q \in [1..Cardinality(S) -> S] : \A i, j \in 1..Cardinality(S) : q[i] = q[j] => i = j}

(* ---------------------------------------------------------------------- *)
(* Grammar model: Symbol, Terminal, NonTerminal, RuleOptions, Rule         *)
(* ---------------------------------------------------------------------- *)
Terminal(name, filter_out) == [is_term |-> TRUE, name |-> name, filter_out |-> filter_out]

NonTerminal(name) == [is_term |-> FALSE, name |-> name, filter_out |-> FALSE]

\* Symbol.__eq__: same kind and same name; filter_out is not compared.
SymbolEq(a, b) == a.is_term = b.is_term /\ a.name = b.name

RuleOptions(expand1, template_source) == [expand1 |-> expand1, template_source |-> template_source]

Rule(origin, expansion, order, alias, options) ==
    [origin |-> origin, expansion |-> expansion, order |-> order, alias |-> alias, options |-> options]

\* Rule.__eq__ / __hash__: identity is (origin, expansion), symbols compared by SymbolEq.
RuleEq(r1, r2) ==
    /\ SymbolEq(r1.origin, r2.origin)
    /\ Len(r1.expansion) = Len(r2.expansion)
    /\ \A i \in 1..Len(r1.expansion) : SymbolEq(r1.expansion[i], r2.expansion[i])

\* The key (rule.origin, tuple(rule.expansion)) as a hashable value: what set
\* membership of such keys compares.
RuleKey(origin, expansion) ==
    <<origin.name, [i \in 1..Len(expansion) |-> <<expansion[i].is_term, expansion[i].name>>]>>

\* rule.alias or rule.origin.name
LabelOf(rule) == IF rule.alias # None THEN rule.alias ELSE rule.origin.name

(* ---------------------------------------------------------------------- *)
(* Characters and sanitize_label                                           *)
(* ---------------------------------------------------------------------- *)
LowerChars == {"a", "e", "s"}

UpperChars == {"A", "E", "S"}

OtherWordChars == {"1", "_"}

PunctChars == {"-"}

Upper(ch) ==
    CASE ch = "a" -> "A"
      [] ch = "e" -> "E"
      [] ch = "s" -> "S"
      [] OTHER -> ch

\* re.sub(r'[^0-9A-Za-z_]', '_', label).upper(), character by character
sanitize_label(label) ==
    [i \in 1..Len(label) |->
        IF label[i] \in LowerChars \cup UpperChars \cup OtherWordChars
        THEN Upper(label[i]) ELSE "_"]

TreeTermName(label) == <<"TREE__">> \o sanitize_label(label)

\* lexer patterns: an ordinary regexp/string pattern, PatternPlaceholder(type_name)
\* and PatternTree(label)
PatternRE == [kind |-> "re", arg |-> None]

PatternPlaceholder(type_name) == [kind |-> "placeholder", arg |-> type_name]

PatternTree(label) == [kind |-> "tree", arg |-> label]

TerminalDef(name, pattern) == [name |-> name, pattern |-> pattern]

(* ---------------------------------------------------------------------- *)
(* Insertion-ordered dicts as sequences of <<key, value>> pairs            *)
(* ---------------------------------------------------------------------- *)
DictKeys(d) == {d[i][1] : i \in 1..Len(d)}

DictValues(d) == {d[i][2] : i \in 1..Len(d)}

\* d.get(k): the value, or None
DictGet(d, k) ==
    IF k \in DictKeys(d) THEN d[CHOOSE i \in 1..Len(d) : d[i][1] = k][2] ELSE None

\* d[k] = v
DictSet(d, k, v) ==
    IF k \in DictKeys(d)
    THEN [i \in 1..Len(d) |-> IF d[i][1] = k THEN <<k, v>> ELSE d[i]]
    ELSE Append(d, <<k, v>>)

RECURSIVE Dedup(_)
Dedup(s) ==
    IF s = <<>> THEN <<>>
    ELSE LET rest == Dedup(SubSeq(s, 1, Len(s) - 1))
             final == s[Len(s)]
         IN  IF final \in Range(rest) THEN rest ELSE Append(rest, final)

(* ---------------------------------------------------------------------- *)
(* augment_grammar_for_template_mode                                       *)
(* ---------------------------------------------------------------------- *)
\* an add_terminal that puts the new pattern on a terminal already registered
add_terminal_Replacing(lc, name, pattern) ==
    IF name \in DOMAIN lc.terminals_by_name
    THEN [terminals |-> [i \in 1..Len(lc.terminals) |->
                            IF lc.terminals[i].name = name THEN TerminalDef(name, pattern)
                            ELSE lc.terminals[i]],
          terminals_by_name |-> [lc.terminals_by_name EXCEPT ![name] = TerminalDef(name, pattern)]]
    ELSE [terminals |-> Append(lc.terminals, TerminalDef(name, pattern)),
          terminals_by_name |-> lc.terminals_by_name @@ (name :> TerminalDef(name, pattern))]

\* add_terminal: reuse the terminal registered under the name, else append a new one.
\* lc is the pair of lists the function works on: terminals, terminals_by_name.
add_terminal(lc, name, pattern) ==
    IF name \in DOMAIN lc.terminals_by_name THEN lc
    ELSE [terminals |-> Append(lc.terminals, TerminalDef(name, pattern)),
          terminals_by_name |-> lc.terminals_by_name @@ (name :> TerminalDef(name, pattern))]

\* lines 159-162: the PYOBJ terminal and one terminal per declared typed placeholder
RECURSIVE AddTypedPlaceholders(_, _)
AddTypedPlaceholders(lc, type_names) ==
    IF type_names = <<>> THEN lc
    ELSE AddTypedPlaceholders(
             add_terminal(lc, Head(type_names)[1], PatternPlaceholder(Head(type_names)[2])),
             Tail(type_names))

AddPlaceholders(lc, grammar) ==
    IF grammar.uses_pyobj_placeholders
    THEN AddTypedPlaceholders(add_terminal(lc, <<"PYOBJ">>, PatternPlaceholder(None)),
                              grammar.pyobj_type_names)
    ELSE lc

\* keys of labels_per_nonterminal, in insertion order (first appearance in the rule list)
OriginSeq(rules) == Dedup([i \in 1..Len(rules) |-> rules[i].origin.name])

\* lines 164-167: origin -> set of labels
labels_per_nonterminal(rules) ==
    [o \in Range(OriginSeq(rules)) |->
        {LabelOf(rules[i]) : i \in {j \in 1..Len(rules) : rules[j].origin.name = o}}]

\* A Python set of strings is iterated in an unspecified order (hash
\* randomisation); the order of one set object is the same in both loops over it.
\* An iteration order assigns each origin a permutation of its label set.
IterOrders(rules) ==
    LET lpn == labels_per_nonterminal(rules)
        all == UNION {PermsOf(lpn[o]) : o \in DOMAIN lpn}
    IN  {f \in [DOMAIN lpn -> all] : \A o \in DOMAIN lpn : f[o] \in PermsOf(lpn[o])}

\* lines 172-176: for one label set, in its iteration order
RECURSIVE AddTreeTerminals(_, _)
AddTreeTerminals(acc, labels) ==
    IF labels = <<>> THEN acc
    ELSE LET label == Head(labels)
             term_name == TreeTermName(label)
         IN  AddTreeTerminals(
                 [lc |-> add_terminal(acc.lc, term_name, PatternTree(label)),
                  tmap |-> DictSet(acc.tmap, label, term_name)],
                 Tail(labels))

RECURSIVE AddAllTreeTerminals(_, _, _)
AddAllTreeTerminals(acc, origins, ord) ==
    IF origins = <<>> THEN acc
    ELSE AddAllTreeTerminals(AddTreeTerminals(acc, ord[Head(origins)]), Tail(origins), ord)

\* line 181: the set of (origin, expansion) keys of the rules present
ExistingRuleKeys(rules) == {RuleKey(rules[i].origin, rules[i].expansion) : i \in 1..Len(rules)}

\* A dedup test that never finds the key (the "continue" of line 193 never taken).
KeyExistsNever(key, existing_rules) == FALSE

\* line 192: the dedup test of a splice rule's key against the keys seen so far
KeyExists(key, existing_rules) == key \in existing_rules

\* The highest existing order reused instead of the one after it.
NextOrderReusesMax(rules, origin) ==
    Max({rules[i].order : i \in {j \in 1..Len(rules) : rules[j].origin.name = origin}}, 0)

\* lines 185-186: the first order given to a new rule of the origin
NextOrder(rules, origin) ==
    Max({rules[i].order : i \in {j \in 1..Len(rules) : rules[j].origin.name = origin}}, -1) + 1

\* line 194: the synthesized unit rule origin -> splice terminal
SpliceRule(origin, term_name, order) ==
    Rule(NonTerminal(origin), <<Terminal(term_name, FALSE)>>, order, None, RuleOptions(TRUE, None))

\* lines 187-197: the labels of one origin, in their iteration order.
\* acc = [existing_rules, new_rules, next_order]
RECURSIVE AddSpliceRules(_, _, _, _)
AddSpliceRules(acc, origin, labels, tmap) ==
    IF labels = <<>> THEN acc
    ELSE LET term_name == DictGet(tmap, Head(labels))
             new_rule == SpliceRule(origin, term_name, acc.next_order)
             key == RuleKey(new_rule.origin, new_rule.expansion)
         IN  IF KeyExists(key, acc.existing_rules)
             THEN AddSpliceRules(acc, origin, Tail(labels), tmap)
             ELSE AddSpliceRules(
                      [existing_rules |-> acc.existing_rules \cup {key},
                       new_rules |-> Append(acc.new_rules, new_rule),
                       next_order |-> acc.next_order + 1],
                      origin, Tail(labels), tmap)

\* lines 183-197: every origin, in dict order
RECURSIVE AddAllSpliceRules(_, _, _, _, _)
AddAllSpliceRules(acc, origins, ord, tmap, rules) ==
    IF origins = <<>> THEN acc
    ELSE LET origin == Head(origins)
             done == AddSpliceRules(
                         [existing_rules |-> acc.existing_rules, new_rules |-> acc.new_rules,
                          next_order |-> NextOrder(rules, origin)],
                         origin, ord[origin], tmap)
         IN  AddAllSpliceRules(done, Tail(origins), ord, tmap, rules)

\* The whole function, for one iteration order ord of the label sets: the new
\* lexer_conf.terminals / terminals_by_name, the extended parser_conf.rules and the
\* returned tree_terminal_map.
augment_grammar_for_template_mode(lc, rules, grammar, ord) ==
    LET withPyobj == AddPlaceholders(lc, grammar)
        terms == AddAllTreeTerminals([lc |-> withPyobj, tmap |-> <<>>], OriginSeq(rules), ord)
        added == AddAllSpliceRules(
                     [existing_rules |-> ExistingRuleKeys(rules), new_rules |-> <<>>, next_order |-> 0],
                     OriginSeq(rules), ord, terms.tmap, rules)
    IN  [terminals |-> terms.lc.terminals,
         terminals_by_name |-> terms.lc.terminals_by_name,
         rules |-> rules \o added.new_rules,
         tree_terminal_map |-> terms.tmap]

(* ---------------------------------------------------------------------- *)
(* The grammars, start declarations and options the model is run on        *)
(* ---------------------------------------------------------------------- *)
NUMBER == <<"NUMBER">>

PYOBJ == <<"PYOBJ">>

PYOBJ_N == <<"PYOBJ__", "N">>

\* Grammar-authored rules to draw a grammar from (origin, expansion, alias):
\*   s: e          e: NUMBER -> a      e: e NUMBER -> A
\*   e: TREE__E    s: NUMBER -> a-
CandRules ==
    << [origin |-> <<"s">>, expansion |-> <<NonTerminal(<<"e">>)>>, alias |-> None],
       [origin |-> <<"e">>, expansion |-> <<Terminal(NUMBER, FALSE)>>, alias |-> <<"a">>],
       [origin |-> <<"e">>, expansion |-> <<NonTerminal(<<"e">>), Terminal(NUMBER, FALSE)>>, alias |-> <<"A">>],
       [origin |-> <<"e">>, expansion |-> <<Terminal(<<"TREE__", "E">>, TRUE)>>, alias |-> None],
       [origin |-> <<"s">>, expansion |-> <<Terminal(NUMBER, FALSE)>>, alias |-> <<"a", "-">>] >>

\* The rule list a grammar compiler hands over for a set of authored rules: in
\* source order, each rule's order its index among the rules of its origin.
RECURSIVE CompileRules(_, _)
CompileRules(idx, sofar) ==
    IF idx = {} THEN sofar
    ELSE LET i == CHOOSE k \in idx : \A m \in idx : k <= m
             c == CandRules[i]
             n == Cardinality({j \in 1..Len(sofar) : sofar[j].origin.name = c.origin})
         IN  CompileRules(idx \ {i},
                 Append(sofar, Rule(NonTerminal(c.origin), c.expansion, n, c.alias, RuleOptions(FALSE, None))))

GrammarOf(idx) == CompileRules(idx, <<>>)

Grammars ==
    {GrammarOf(idx) :
        idx \in {x \in SUBSET (1..Len(CandRules)) : x # {} /\ Cardinality(x) <= MaxRules}}

\* The terminals a grammar compiler hands over: those the rules mention, each
\* with an ordinary (regexp) pattern.
MentionsTerminal(rs, name) ==
    \E i \in 1..Len(rs) : \E j \in 1..Len(rs[i].expansion) :
        rs[i].expansion[j].is_term /\ rs[i].expansion[j].name = name

CompileTerminals(rs) ==
    <<TerminalDef(NUMBER, PatternRE)>> \o
    (IF MentionsTerminal(rs, <<"TREE__", "E">>)
     THEN <<TerminalDef(<<"TREE__", "E">>, PatternRE)>> ELSE <<>>)

\* LexerConf.terminals_by_name as the LexerConf constructor derives it
ByName(ts) == [n \in {ts[i].name : i \in 1..Len(ts)} |-> ts[CHOOSE i \in 1..Len(ts) : ts[i].name = n]]

StartDecls == {<<<<"s">>>>, <<<<"e">>>>, <<<<"s">>, <<"e">>>>}

\* grammar.uses_pyobj_placeholders and grammar.pyobj_type_names (terminal -> type key)
NoPyobj == [uses_pyobj_placeholders |-> FALSE, pyobj_type_names |-> <<>>]

GenericPyobj == [uses_pyobj_placeholders |-> TRUE, pyobj_type_names |-> <<>>]

TypedPyobj == [uses_pyobj_placeholders |-> TRUE, pyobj_type_names |-> << <<PYOBJ_N, <<"n">>>> >>]

\* A grammar's placeholder declarations with the options.pyobj_types (type key ->
\* expected runtime type) a caller passes along.
NoPyobjSetup == [grammar |-> NoPyobj, pyobj_types |-> <<>>]

TypedSetup == [grammar |-> TypedPyobj, pyobj_types |-> << <<<<"n">>, <<"int">>>> >>]

PyobjSetups ==
    { [grammar |-> NoPyobj, pyobj_types |-> <<>>],
      [grammar |-> GenericPyobj, pyobj_types |-> <<>>],
      [grammar |-> TypedPyobj, pyobj_types |-> << <<<<"n">>, <<"int">>>> >>],
      [grammar |-> TypedPyobj, pyobj_types |-> <<>>],
      [grammar |-> TypedPyobj, pyobj_types |-> << <<<<"m">>, <<"str">>>> >>] }

(* ---------------------------------------------------------------------- *)
(* State                                                                   *)
(* ---------------------------------------------------------------------- *)
VARIABLES
    terminals,          \* lexer_conf.terminals
    terminals_by_name,  \* lexer_conf.terminals_by_name
    lexer_type,         \* lexer_conf.lexer_type
    rules,              \* parser_conf.rules
    callbacks,          \* parser_conf.callbacks restricted to the rules given _first_child
    start,              \* parser_conf.start
    parser_type,        \* parser_conf.parser_type
    grammar,            \* parser_conf.grammar
    options,            \* the options object: pyobj_types, start
    frontends,          \* the frontends constructed so far, on the shared configs (built_from
                        \* is history: parser_conf.rules as the constructor found them)
    authored_rules,     \* history: parser_conf.rules as the grammar compiler handed them over
    aug_log,            \* history: the map returned by each augmentation run so far
    token_source,       \* the _TemplateTokenSource in use, if any, and its iterator
    last                \* the last operation and what it returned or raised

vars == <<terminals, terminals_by_name, lexer_type, rules, callbacks, start, parser_type,
          grammar, options, frontends, authored_rules, aug_log, token_source, last>>

conf == <<terminals, terminals_by_name, lexer_type, rules, callbacks, start, parser_type,
          grammar, options>>

NoOp == [op |-> "none"]

\* Execution is synchronous and single-threaded: a call is made when the caller
\* holds no result of an earlier call.
Idle == last = NoOp

\* the caller is done with the result of the last call
Done ==
    /\ ~Idle
    /\ last' = NoOp
    /\ UNCHANGED <<terminals, terminals_by_name, lexer_type, rules, callbacks, start, parser_type,
                   grammar, options, frontends, authored_rules, aug_log, token_source>>

\* The state after the grammar compiler has built the configs, for a grammar of
\* gs, a start declaration of ss and a placeholder setup of ps.
InitWith(gs, ss, ps) ==
    /\ rules \in gs
    /\ terminals = CompileTerminals(rules)
    /\ terminals_by_name = ByName(terminals)
    /\ lexer_type = None
    /\ parser_type = None
    /\ callbacks = {}
    /\ start \in ss
    /\ \E p \in ps :
          /\ grammar = p.grammar
          /\ options = [pyobj_types |-> p.pyobj_types, start |-> start]
    /\ frontends = <<>>
    /\ authored_rules = rules
    /\ aug_log = <<>>
    /\ token_source = [open |-> FALSE]
    /\ last = NoOp

Init == InitWith(Grammars, StartDecls, PyobjSetups)

(* ---------------------------------------------------------------------- *)
(* TemplateEarleyFrontend.__init__                                         *)
(* ---------------------------------------------------------------------- *)
\* [x for x in seq if x in S]
RECURSIVE FilterSeq(_, _)
FilterSeq(seq, S) ==
    IF seq = <<>> THEN <<>>
    ELSE (IF Head(seq) \in S THEN <<Head(seq)>> ELSE <<>>) \o FilterSeq(Tail(seq), S)

\* lines 305-309: the rules of the augmented list that are not equal (Rule.__eq__)
\* to a rule of the list before augmentation
InjectionRules(before, after) ==
    {RuleKey(after[i].origin, after[i].expansion) : i \in 1..Len(after)}
        \ ExistingRuleKeys(before)

\* line 315
NonterminalNames(rs) == {rs[i].origin.name : i \in 1..Len(rs)}

\* line 330
AvailableStarts(filtered_start, nonterminal_names) == Range(filtered_start) \cup nonterminal_names

\* The constructor as far as it changes state, called by _construct_parsing_frontend
\* (which has set lexer_conf.lexer_type to 'template' before, line 281). It raises
\* ConfigurationError (after the augmentation has been applied to the shared
\* configs) when no declared start symbol has a rule.
TemplateEarleyFrontend_init(ord) ==
    LET aug == augment_grammar_for_template_mode(
                   [terminals |-> terminals, terminals_by_name |-> terminals_by_name],
                   rules, grammar, ord)
        names == NonterminalNames(aug.rules)
        filtered_start == FilterSeq(start, names)
    IN  /\ terminals' = aug.terminals
        /\ terminals_by_name' = aug.terminals_by_name
        /\ rules' = aug.rules
        /\ callbacks' = callbacks \cup InjectionRules(rules, aug.rules)
        /\ aug_log' = Append(aug_log, aug.tree_terminal_map)
        /\ IF filtered_start = <<>>
           THEN /\ last' = [op |-> "construct", outcome |-> "ConfigurationError",
                            parser |-> <<"earley">>, lexer |-> <<"template">>,
                            frontends_before |-> frontends,
                            rules_before |-> rules, terminals_before |-> terminals]
                /\ lexer_type' = <<"template">>
                /\ UNCHANGED <<start, options, frontends>>
           ELSE /\ start' = filtered_start
                /\ options' = [options EXCEPT !.start = filtered_start]
                /\ lexer_type' = <<"template">>
                /\ frontends' = Append(frontends,
                       [kind |-> "template",
                        backend |-> <<"earley">>,
                        skip_lexer |-> FALSE,
                        tree_terminal_map |-> aug.tree_terminal_map,
                        pyobj_types |-> options.pyobj_types,
                        typed_expected |-> grammar.pyobj_type_names,
                        available_starts |-> AvailableStarts(filtered_start, names),
                        built_from |-> rules])
                /\ last' = [op |-> "construct", outcome |-> "ok",
                            parser |-> <<"earley">>, lexer |-> <<"template">>,
                            frontends_before |-> frontends,
                            rules_before |-> rules, terminals_before |-> terminals]
        /\ UNCHANGED <<grammar, authored_rules, token_source>>

\* _construct_parsing_frontend('earley', 'template', ...): lines 279-282
ConstructTemplateFrontend ==
    /\ Idle
    /\ Len(aug_log) < MaxFrontends
    /\ Len(frontends) < MaxFrontends
    /\ parser_type' = <<"earley">>
    /\ \E ord \in IterOrders(rules) : TemplateEarleyFrontend_init(ord)

(* ---------------------------------------------------------------------- *)
(* _validate_frontend_args, _construct_parsing_frontend, ParsingFrontend   *)
(* ---------------------------------------------------------------------- *)
ParserNames == {<<"lalr">>, <<"earley">>, <<"cyk">>}

LexerNames == {<<"basic">>, <<"contextual">>, <<"dynamic">>, <<"dynamic_complete">>, <<"template">>}

\* a table in which every parser supports every lexer
ExpectedLexersAny(parser) == LexerNames

\* the lexers each parser supports (lines 143-147)
ExpectedLexers(parser) ==
    CASE parser = <<"lalr">> -> {<<"basic">>, <<"contextual">>}
      [] parser = <<"earley">> -> {<<"basic">>, <<"dynamic">>, <<"dynamic_complete">>}
      [] parser = <<"cyk">> -> {<<"basic">>}

\* "ok", or the exception raised, for a parser name and a lexer given by name
validate_frontend_args(parser, lexer) ==
    IF parser \notin ParserNames THEN "ConfigurationError"
    ELSE IF lexer = <<"template">>
         THEN (IF parser # <<"earley">> THEN "ConfigurationError" ELSE "ok")
         ELSE (IF lexer \in ExpectedLexers(parser) THEN "ok" ELSE "ConfigurationError")

\* ParsingFrontend.__init__ as far as it sets fields of the frontend: backend is
\* the parser created for parser_conf.parser_type (lines 73-77); the parser and
\* lexer objects themselves are not modelled
ParsingFrontend_init(parser, lexer) ==
    [kind |-> "core",
     backend |-> parser,
     skip_lexer |-> lexer \in {<<"dynamic">>, <<"dynamic_complete">>},
     tree_terminal_map |-> <<>>,
     pyobj_types |-> <<>>,
     typed_expected |-> <<>>,
     available_starts |-> {},
     built_from |-> rules]

\* Frontend construction for a parser and lexer named by the caller: the
\* arguments are validated, then _construct_parsing_frontend builds the frontend.
ConstructFrontend(parser, lexer) ==
    /\ Idle
    /\ Len(frontends) < MaxFrontends
    /\ IF validate_frontend_args(parser, lexer) # "ok"
       THEN /\ last' = [op |-> "construct", outcome |-> validate_frontend_args(parser, lexer),
                        parser |-> parser, lexer |-> lexer, frontends_before |-> frontends,
                        rules_before |-> rules, terminals_before |-> terminals]
            /\ UNCHANGED <<conf, frontends, authored_rules, aug_log, token_source>>
       ELSE IF parser = <<"earley">> /\ lexer = <<"template">>
            THEN ConstructTemplateFrontend
            ELSE /\ parser_type' = parser
                 /\ lexer_type' = lexer
                 /\ frontends' = Append(frontends, ParsingFrontend_init(parser, lexer))
                 /\ last' = [op |-> "construct", outcome |-> "ok",
                             parser |-> parser, lexer |-> lexer, frontends_before |-> frontends,
                             rules_before |-> rules, terminals_before |-> terminals]
                 /\ UNCHANGED <<terminals, terminals_by_name, rules, callbacks, start, grammar,
                                options, authored_rules, aug_log, token_source>>

(* ---------------------------------------------------------------------- *)
(* _verify_start                                                           *)
(* ---------------------------------------------------------------------- *)
Raise(exc) == [ok |-> FALSE, exc |-> exc, value |-> None]

Return(v) == [ok |-> TRUE, exc |-> "none", value |-> v]

\* a membership test that also accepts every nonterminal of the rule list
StartIsKnownAmongNonterminals(fe, s) == s \in Range(start) \cup NonterminalNames(rules)

\* the membership test of a start given by the caller: the declared start symbols
\* for ParsingFrontend (line 108), _available_starts for the template frontend (line 412)
StartIsKnown(fe, s) ==
    IF fe.kind = "template" THEN s \in fe.available_starts ELSE s \in Range(start)

\* ParsingFrontend._verify_start and TemplateEarleyFrontend._verify_start
verify_start(fe, s) ==
    IF s = None
    THEN (IF Len(start) > 1 THEN Raise("ConfigurationError")
          ELSE IF Len(start) = 0 THEN Raise("ValueError")
          ELSE Return(start[1]))
    ELSE (IF ~StartIsKnown(fe, s) THEN Raise("ConfigurationError") ELSE Return(s))

(* ---------------------------------------------------------------------- *)
(* Values, tokens, source info                                             *)
(* ---------------------------------------------------------------------- *)
\* None in a position field
NoPos == -1

Meta(start_pos, line, column, end_pos, end_line, end_column) ==
    [start_pos |-> start_pos, line |-> line, column |-> column,
     end_pos |-> end_pos, end_line |-> end_line, end_column |-> end_column]

NoMeta == Meta(NoPos, NoPos, NoPos, NoPos, NoPos, NoPos)

\* a str matched by the lexer, an opaque host object of a runtime type, a Tree
StrVal(text) == [kind |-> "str", type |-> <<"str">>, data |-> text, meta |-> NoMeta]

ObjVal(type) == [kind |-> "obj", type |-> type, data |-> None, meta |-> NoMeta]

TreeVal(label, meta) ==
    [kind |-> "Tree", type |-> <<"Tree">>, data |-> label, meta |-> meta, children |-> <<>>]

\* a Tree with children (tokens and Trees)
Tree(label, children) ==
    [kind |-> "Tree", type |-> <<"Tree">>, data |-> label, meta |-> NoMeta, children |-> children]

\* isinstance(value, type), with bool a subclass of int
IsInstance(value, type) == value.type = type \/ (value.type = <<"bool">> /\ type = <<"int">>)

Token(type, value, meta) == [type |-> type, value |-> value, meta |-> meta]

\* the values interpolated into templates
Values ==
    { ObjVal(<<"int">>), ObjVal(<<"Image">>),
      TreeVal(<<"a">>, Meta(7, 2, 3, 9, 2, 5)), TreeVal(<<"e">>, NoMeta), TreeVal(<<"z">>, NoMeta) }

\* the literal segments (and plain texts) of the inputs: "1" lexes as NUMBER,
\* "?" matches no terminal, a newline is ignored
Segments == {<<>>, <<"1">>, <<"?">>, <<"\n", "1">>}

NoSource == [present |-> FALSE, text |-> <<>>, segment_spans |-> <<>>, interpolation_spans |-> <<>>]

Template(strings, interpolations, source_info) ==
    [kind |-> "template", strings |-> strings, interpolations |-> interpolations,
     source_info |-> source_info]

PlainText(text) ==
    [kind |-> "str", strings |-> <<text>>, interpolations |-> <<>>, source_info |-> NoSource]

\* a template's source: the segments as written, each interpolation as "{}"
RECURSIVE SourceOf(_, _, _)
SourceOf(strings, n, acc) ==
    IF strings = <<>> THEN acc
    ELSE LET seg == [acc EXCEPT !.text = acc.text \o Head(strings),
                                !.segment_spans = Append(acc.segment_spans,
                                    <<Len(acc.text), Len(acc.text) + Len(Head(strings))>>)]
         IN  IF n = 0 THEN SourceOf(Tail(strings), 0, seg)
             ELSE SourceOf(Tail(strings), n - 1,
                      [seg EXCEPT !.text = seg.text \o <<"{", "}">>,
                                  !.interpolation_spans = Append(seg.interpolation_spans,
                                      <<Len(seg.text), Len(seg.text) + 2>>)])

SourceInfo(strings, n) ==
    SourceOf(strings, n,
        [present |-> TRUE, text |-> <<>>, segment_spans |-> <<>>, interpolation_spans |-> <<>>])

(* ---------------------------------------------------------------------- *)
(* _offset_to_meta and the lexer                                           *)
(* ---------------------------------------------------------------------- *)
\* text[a:b].count('\n'), a and b 0-based offsets
CountNewlines(text, a, b) == Cardinality({k \in (a + 1)..b : k <= Len(text) /\ text[k] = "\n"})

\* text.rfind('\n', 0, b): the 0-based offset of the last newline before b, or -1
RFindNewline(text, b) == Max({k - 1 : k \in {j \in 1..b : j <= Len(text) /\ text[j] = "\n"}}, -1)

\* a conversion with 0-based columns
offset_to_meta_ZeroBased(text, start_pos, end_pos) ==
    LET line == CountNewlines(text, 0, start_pos) + 1
        column == start_pos - (RFindNewline(text, start_pos) + 1)
        lines_in_span == CountNewlines(text, start_pos, end_pos)
    IN  Meta(start_pos, line, column, end_pos, line + lines_in_span,
             IF lines_in_span = 0 THEN column + (end_pos - start_pos)
             ELSE end_pos - (RFindNewline(text, end_pos) + 1))

offset_to_meta(text, start_pos, end_pos) ==
    LET line == CountNewlines(text, 0, start_pos) + 1
        column == start_pos - (RFindNewline(text, start_pos) + 1) + 1
        lines_in_span == CountNewlines(text, start_pos, end_pos)
    IN  Meta(start_pos, line, column, end_pos, line + lines_in_span,
             IF lines_in_span = 0 THEN column + (end_pos - start_pos)
             ELSE end_pos - (RFindNewline(text, end_pos) + 1) + 1)

\* whether ts has an ordinary (regexp) terminal of the name
HasTerminal(ts, name) == \E t \in ts : t.name = name /\ t.pattern.kind = "re"

\* BasicLexer.lex over the slice [from, to) of text with the set of terminals
\* names: one character at a time, "1" a NUMBER, "t" the grammar's own TREE__E
\* terminal, a newline ignored, anything else UnexpectedCharacters. Each token
\* carries the position of its character in the text it was lexed from.
\* Returns the tokens delivered and the exception that ended the stream, if any.
RECURSIVE BasicLexer_lex(_, _, _, _)
BasicLexer_lex(names, text, from, to) ==
    IF from >= to THEN [tokens |-> <<>>, exc |-> "none"]
    ELSE LET ch == text[from + 1]
             type == CASE ch = "1" /\ HasTerminal(names, NUMBER) -> NUMBER
                       [] ch = "t" /\ HasTerminal(names, <<"TREE__", "E">>) -> <<"TREE__", "E">>
                       [] OTHER -> None
             rest == BasicLexer_lex(names, text, from + 1, to)
         IN  IF ch = "\n" THEN rest
             ELSE IF type = None THEN [tokens |-> <<>>, exc |-> "UnexpectedCharacters"]
             ELSE [tokens |-> <<Token(type, StrVal(<<ch>>), offset_to_meta(text, from, from + 1))>>
                                  \o rest.tokens,
                   exc |-> rest.exc]

(* ---------------------------------------------------------------------- *)
(* tokenize_template                                                       *)
(* ---------------------------------------------------------------------- *)
\* lines 42-45: the terminals the static text is lexed with
FilteredTerminals(ts) ==
    {ts[i] : i \in {j \in 1..Len(ts) : ts[j].pattern.kind \notin {"placeholder", "tree"}}}

\* a token type chosen by the runtime type of the value
PyobjTokenTypeByValue(value, ctx) == IF value.type = <<"int">> THEN PYOBJ_N ELSE PYOBJ

\* line 126: the terminal type of the token made for an opaque value
PyobjTokenType(value, ctx) == PYOBJ

\* a lookup that never reports a missing terminal
NoSpliceTerminalNever(term_name) == FALSE

\* line 104: whether the map has no terminal for the label
NoSpliceTerminal(term_name) == term_name = None

\* lines 86-127: the token for interpolation i, or the exception raised
InterpolationToken(template, ctx, i) ==
    LET value == template.interpolations[i].value
        meta == IF ctx.source_info.present
                THEN offset_to_meta(ctx.source_info.text,
                                    ctx.source_info.interpolation_spans[i][1],
                                    ctx.source_info.interpolation_spans[i][2])
                ELSE NoMeta
    IN  IF value.kind = "Tree"
        THEN LET term_name == DictGet(ctx.tree_terminal_map, value.data)
             IN  IF NoSpliceTerminal(term_name)
                 THEN [ok |-> FALSE, exc |-> "ValueError", label |-> value.data, token |-> None]
                 \* a Tree's meta object is always truthy: its fields are used
                 ELSE [ok |-> TRUE, exc |-> "none", label |-> None,
                       token |-> Token(term_name, value, value.meta)]
        ELSE [ok |-> TRUE, exc |-> "none", label |-> None,
              token |-> Token(PyobjTokenType(value, ctx), value, meta)]

\* lines 68-127, from segment i on: the generator drained by its consumer.
\* out = [tokens delivered, exc that ended the stream or "none", label named by it,
\*        origin of each token: <<"seg", i>> or <<"interp", i>>]
RECURSIVE TokenizeFrom(_, _, _, _)
TokenizeFrom(template, ctx, i, out) ==
    IF i > Len(template.strings) THEN out
    ELSE LET static_str == template.strings[i]
             lexed == IF static_str = <<>> THEN [tokens |-> <<>>, exc |-> "none"]
                      ELSE IF ctx.source_info.present
                      THEN BasicLexer_lex(FilteredTerminals(ctx.terminals), ctx.source_info.text,
                                          ctx.source_info.segment_spans[i][1],
                                          ctx.source_info.segment_spans[i][2])
                      ELSE BasicLexer_lex(FilteredTerminals(ctx.terminals), static_str,
                                          0, Len(static_str))
             afterSeg == [out EXCEPT !.tokens = out.tokens \o lexed.tokens,
                                     !.from = out.from \o [k \in 1..Len(lexed.tokens) |-> <<"seg", i>>],
                                     !.exc = lexed.exc]
         IN  IF lexed.exc # "none" THEN afterSeg
             ELSE IF i <= Len(template.interpolations)
             THEN LET it == InterpolationToken(template, ctx, i)
                  IN  IF ~it.ok THEN [afterSeg EXCEPT !.exc = it.exc, !.label = it.label]
                      ELSE TokenizeFrom(template, ctx, i + 1,
                               [afterSeg EXCEPT !.tokens = Append(afterSeg.tokens, it.token),
                                                !.from = Append(afterSeg.from, <<"interp", i>>)])
             ELSE TokenizeFrom(template, ctx, i + 1, afterSeg)

tokenize_template(template, ctx) ==
    TokenizeFrom(template, ctx, 1, [tokens |-> <<>>, exc |-> "none", label |-> None, from |-> <<>>])

(* ---------------------------------------------------------------------- *)
(* TemplateEarleyFrontend._create_term_matcher                             *)
(* ---------------------------------------------------------------------- *)
StartsWith(name, prefix) == name # <<>> /\ name[1] = prefix

Bool(b) == IF b THEN "True" ELSE "False"

\* a type check that reports a mismatch as a non-match
TypedCheckNoMatch(fe, name, token) ==
    LET expected_name == DictGet(fe.typed_expected, name)
    IN  IF expected_name # None /\ fe.pyobj_types # <<>>
        THEN LET expected_type == DictGet(fe.pyobj_types, expected_name)
             IN  IF expected_type # None /\ ~IsInstance(token.value, expected_type)
                 THEN "False" ELSE "True"
        ELSE "True"

\* lines 380-392: the type check of a typed placeholder terminal against the
\* value of a placeholder token; "True", or "TypeError" when it raises
TypedCheck(fe, name, token) ==
    LET expected_name == DictGet(fe.typed_expected, name)
    IN  IF expected_name # None /\ fe.pyobj_types # <<>>
        THEN LET expected_type == DictGet(fe.pyobj_types, expected_name)
             IN  IF expected_type # None /\ ~IsInstance(token.value, expected_type)
                 THEN "TypeError" ELSE "True"
        ELSE "True"

\* match(term, token) for the terminal named name: "True", "False" or "TypeError"
match(fe, name, token) ==
    IF name = PYOBJ THEN Bool(token.type = PYOBJ)
    ELSE IF StartsWith(name, "PYOBJ__")
    THEN (IF token.type \notin {name, PYOBJ} THEN "False" ELSE TypedCheck(fe, name, token))
    ELSE IF StartsWith(name, "TREE__")
    THEN (IF token.type # name THEN "False" ELSE Bool(token.value.kind = "Tree"))
    ELSE Bool(token.type = name)

(* ---------------------------------------------------------------------- *)
(* TemplateContext, splice_inserted_trees, the backend                     *)
(* ---------------------------------------------------------------------- *)
\* the fields of the dataclass (template_mode.py lines 13-15)
TemplateContextFields == {"lexer_conf", "tree_terminal_map", "source_info"}

\* the keyword arguments TemplateEarleyFrontend.parse passes (lines 431-436)
TemplateContextKwargs == {"lexer_conf", "lexer", "tree_terminal_map", "source_info"}

\* the dataclass's __init__: a keyword that is no field is a TypeError
TemplateContext_init(kwargs) ==
    IF kwargs \subseteq TemplateContextFields /\ {"lexer_conf", "tree_terminal_map"} \subseteq kwargs
    THEN "ok" ELSE "TypeError"

\* The Earley backend's parse(token_source, start): it drains the token source,
\* whose exception propagates; what it derives is the backend's, kept here as the
\* tree of the start symbol over the tokens it was given.
EarleyParse(tokens, chosen_start) == [kind |-> "Tree", data |-> chosen_start, children |-> tokens]

\* isinstance(x, Token), isinstance(x, Tree)
IsToken(x) == "type" \in DOMAIN x /\ "value" \in DOMAIN x

IsTree(x) == "kind" \in DOMAIN x /\ x.kind = "Tree"

\* lines 167-169: a child that is a TREE__ token carrying a Tree
IsSpliceToken(x) == IsToken(x) /\ StartsWith(x.type, "TREE__") /\ IsTree(x.value)

\* splice_inserted_trees(node): the node as the call leaves it. Each child that is
\* a TREE__ token carrying a Tree is replaced by that Tree, which is not descended
\* into; every other child that is a Tree is processed in turn.
RECURSIVE splice_inserted_trees(_)
splice_inserted_trees(node) ==
    IF ~IsTree(node) THEN node
    ELSE [node EXCEPT !.children =
             [i \in 1..Len(node.children) |->
                 IF IsSpliceToken(node.children[i]) THEN node.children[i].value
                 ELSE IF IsTree(node.children[i]) THEN splice_inserted_trees(node.children[i])
                 ELSE node.children[i]]]

\* TemplateEarleyFrontend.parse lines 450-454 on what the backend returned: a bare
\* TREE__ token carrying a Tree is unwrapped, then a Tree is spliced
SpliceResult(tree) ==
    LET unwrapped == IF IsSpliceToken(tree) THEN tree.value ELSE tree
    IN  IF IsTree(unwrapped) THEN splice_inserted_trees(unwrapped) ELSE unwrapped

(* ---------------------------------------------------------------------- *)
(* parse and parse_interactive                                             *)
(* ---------------------------------------------------------------------- *)
\* what a call did: the exception it raised ("none": it returned result), whether
\* it reached the backend's parse, and what _verify_start returned or raised
\* (NotCalled: it was not reached)
NotCalled == [ok |-> FALSE, exc |-> "not called", value |-> None]

Outcome(exc, backend_called, verified, result) ==
    [exc |-> exc, backend_called |-> backend_called, verified |-> verified, result |-> result]

\* an incomplete TextSlice of a text
IncompleteSlice == [kind |-> "slice", strings |-> <<<<"1">>>>, interpolations |-> <<>>, source_info |-> NoSource]

\* The backend's parse(stream, start) on a plain input: the text is lexed with all
\* terminals of lexer_conf as the backend pulls tokens; a lexer error propagates.
BackendParse(input, verified) ==
    LET text == input.strings[1]
        lexed == BasicLexer_lex(Range(terminals), text, 0, Len(text))
    IN  IF lexed.exc # "none" THEN Outcome(lexed.exc, TRUE, verified, None)
        ELSE Outcome("none", TRUE, verified, EarleyParse(lexed.tokens, verified.value))

\* ParsingFrontend.parse
ParsingFrontend_parse(fe, input, s) ==
    IF lexer_type \in {<<"dynamic">>, <<"dynamic_complete">>} /\ input.kind = "slice"
    THEN Outcome("TypeError", FALSE, NotCalled, None)
    ELSE LET chosen_start == verify_start(fe, s)
         IN  IF ~chosen_start.ok THEN Outcome(chosen_start.exc, FALSE, chosen_start, None)
             ELSE BackendParse(input, chosen_start)

\* ParsingFrontend.parse_interactive
ParsingFrontend_parse_interactive(fe, input, s) ==
    LET chosen_start == verify_start(fe, s)
    IN  IF ~chosen_start.ok THEN Outcome(chosen_start.exc, FALSE, chosen_start, None)
        ELSE IF parser_type # <<"lalr">> THEN Outcome("ConfigurationError", FALSE, chosen_start, None)
        ELSE Outcome("none", TRUE, chosen_start, [kind |-> "InteractiveParser"])

\* the context TemplateEarleyFrontend.parse hands to the tokenizer
Context(fe, input) ==
    [terminals |-> terminals, tree_terminal_map |-> fe.tree_terminal_map,
     source_info |-> input.source_info]

\* TemplateEarleyFrontend.parse
TemplateEarleyFrontend_parse(fe, input, s) ==
    LET chosen_start == verify_start(fe, s)
    IN  IF ~chosen_start.ok THEN Outcome(chosen_start.exc, FALSE, chosen_start, None)
        ELSE IF input.kind = "template"
        THEN IF TemplateContext_init(TemplateContextKwargs) # "ok"
             THEN Outcome(TemplateContext_init(TemplateContextKwargs), FALSE, chosen_start, None)
             ELSE LET toks == tokenize_template(input, Context(fe, input))
                  IN  IF toks.exc # "none" THEN Outcome(toks.exc, TRUE, chosen_start, None)
                      \* line 459: the context has no attribute overall_start
                      ELSE IF input.source_info.present
                      THEN Outcome("AttributeError", TRUE, chosen_start, None)
                      ELSE Outcome("none", TRUE, chosen_start,
                               SpliceResult(EarleyParse(toks.tokens, chosen_start.value)))
        ELSE LET parsed == BackendParse(input, chosen_start)
             IN  IF parsed.exc # "none" THEN parsed
                 ELSE [parsed EXCEPT !.result = SpliceResult(parsed.result)]

StartArgs == {None, <<"s">>, <<"e">>, <<"x">>}

RECURSIVE SeqsOf(_, _)
SeqsOf(S, n) == IF n = 0 THEN {<<>>} ELSE {Append(q, x) : q \in SeqsOf(S, n - 1), x \in S}

Interps(vals) == [i \in 1..Len(vals) |-> [value |-> vals[i]]]

\* t"T": one segment, no interpolation
StaticTemplates == {Template(<<t>>, <<>>, NoSource) : t \in Segments}

\* the segments around n interpolations: any first and last one, empty ones between
EndSegments(n) ==
    {[i \in 1..(n + 1) |-> IF i = 1 THEN a ELSE IF i = n + 1 THEN b ELSE <<>>] : a, b \in Segments}

\* the templates tokenized: up to MaxInterp interpolations, MaxInterp + 1
\* interpolated trees with nothing around them, and two whose literal text "t"
\* is what a grammar's own terminal TREE__E matches
Templates ==
    UNION {{Template(strings, Interps(vals), NoSource) :
               strings \in EndSegments(n), vals \in SeqsOf(Values, n)} : n \in 0..MaxInterp}
    \cup {Template([i \in 1..(MaxInterp + 2) |-> <<>>], Interps(vals), NoSource) :
               vals \in SeqsOf({v \in Values : v.kind = "Tree"}, MaxInterp + 1)}
    \cup {Template(<<<<"t">>>>, <<>>, NoSource),
          Template(<<<<"t">>, <<"1">>>>, Interps(<<TreeVal(<<"e">>, NoMeta)>>), NoSource)}

WithSource(tpl) ==
    [tpl EXCEPT !.source_info = SourceInfo(tpl.strings, Len(tpl.interpolations))]

PlainInputs == {PlainText(t) : t \in Segments} \cup {IncompleteSlice}

\* the inputs parsed by a template frontend: plain texts, static templates and
\* the templates of one interpolation
ParseInputs ==
    PlainInputs \cup StaticTemplates
    \cup {Template(<<<<>>, <<>>>>, Interps(<<v>>), NoSource) : v \in Values}

Parse(i, input, s) ==
    /\ Idle
    /\ i \in 1..Len(frontends)
    /\ frontends[i].kind = "core" => input \in PlainInputs
    /\ last' = [op |-> "parse", fe |-> i, input |-> input, start_arg |-> s,
                out |-> IF frontends[i].kind = "template"
                        THEN TemplateEarleyFrontend_parse(frontends[i], input, s)
                        ELSE ParsingFrontend_parse(frontends[i], input, s)]
    /\ UNCHANGED <<conf, frontends, authored_rules, aug_log, token_source>>

\* TemplateEarleyFrontend defines no parse_interactive and does not inherit one
ParseInteractive(i, input, s) ==
    /\ Idle
    /\ i \in 1..Len(frontends)
    /\ last' = [op |-> "parse_interactive", fe |-> i, input |-> input, start_arg |-> s,
                out |-> IF frontends[i].kind = "template"
                        THEN Outcome("AttributeError", FALSE, NotCalled, None)
                        ELSE ParsingFrontend_parse_interactive(frontends[i], input, s)]
    /\ UNCHANGED <<conf, frontends, authored_rules, aug_log, token_source>>

\* tokenize_template called with a context made of a template frontend's map
TokenizeTemplate(i, tpl) ==
    /\ Idle
    /\ i \in 1..Len(frontends)
    /\ frontends[i].kind = "template"
    /\ last' = [op |-> "tokenize", fe |-> i, input |-> tpl,
                out |-> tokenize_template(tpl, Context(frontends[i], tpl))]
    /\ UNCHANGED <<conf, frontends, authored_rules, aug_log, token_source>>

\* the terminals and tokens the term matcher is applied to
MatchTerms == {PYOBJ, PYOBJ_N, NUMBER, <<"TREE__", "A">>}

MatchTokens ==
    {Token(PYOBJ, v, NoMeta) : v \in {ObjVal(<<"int">>), ObjVal(<<"bool">>), ObjVal(<<"Image">>)}}
    \cup {Token(PYOBJ_N, ObjVal(<<"int">>), NoMeta), Token(PYOBJ_N, ObjVal(<<"Image">>), NoMeta),
          Token(NUMBER, StrVal(<<"1">>), NoMeta),
          Token(<<"TREE__", "A">>, TreeVal(<<"a">>, NoMeta), NoMeta)}

\* The backend's scan of one token against the terminals expected at a position:
\* it applies the term matcher to each of them; an exception of the matcher ends
\* the parse.
ScanOutcome(fe, expected, token) ==
    IF \E t \in expected : match(fe, t, token) = "TypeError" THEN "TypeError"
    ELSE IF \E t \in expected : match(fe, t, token) = "True" THEN "advance"
    ELSE "UnexpectedToken"

Scan(i, expected, token) ==
    /\ Idle
    /\ i \in 1..Len(frontends)
    /\ frontends[i].kind = "template"
    /\ last' = [op |-> "scan", fe |-> i, expected |-> expected, token |-> token,
                matched |-> [t \in expected |-> match(frontends[i], t, token)],
                out |-> ScanOutcome(frontends[i], expected, token)]
    /\ UNCHANGED <<conf, frontends, authored_rules, aug_log, token_source>>

(* ---------------------------------------------------------------------- *)
(* _wrap_lexer                                                             *)
(* ---------------------------------------------------------------------- *)
\* a custom lexer class: whether it declares __future_interface__, and the value
LexerClass(declares, level) == [declares |-> declares, future_interface |-> level]

LexerClasses ==
    {LexerClass(TRUE, level) : level \in (-1)..MaxLevel} \cup {LexerClass(FALSE, 0)}

\* getattr(lexer_class, '__future_interface__', 0)
FutureInterface(lexer_class) ==
    IF lexer_class.declares THEN lexer_class.future_interface ELSE 0

\* _wrap_lexer: the class it returns ("lexer_class": the class it was given), or
\* the exception it raises
wrap_lexer(lexer_class) ==
    CASE FutureInterface(lexer_class) = 2 -> Return("lexer_class")
      [] FutureInterface(lexer_class) = 1 -> Return("CustomLexerWrapper1")
      [] FutureInterface(lexer_class) = 0 -> Return("CustomLexerWrapper0")
      [] OTHER -> Raise("ValueError")

\* a TextSlice of a text, and TextSlice.is_complete_text
TextSlice(text, from, to) == [text |-> text, start |-> from, end |-> to]

is_complete_text(slice) == slice.start = 0 /\ slice.end = Len(slice.text)

TextSlices ==
    UNION {{TextSlice(t, ab[1], ab[2]) :
               ab \in {x \in (0..Len(t)) \X (0..Len(t)) : x[1] <= x[2]}} : t \in Segments}

\* a wrapper's lex that hands every slice to the wrapped lexer
CustomLexerWrapper_lex_Unchecked(wrapper, slice) ==
    [exc |-> "none", inner_called |-> TRUE,
     inner_arg |-> IF wrapper = "CustomLexerWrapper0" THEN slice.text ELSE slice]

\* lex of the class _wrap_lexer returned, on a lexer state over the slice: the
\* exception raised, whether lex of the wrapped lexer was called, and with what
\* (level 0: the str of the text; else the lexer state, here its slice)
CustomLexerWrapper_lex(wrapper, slice) ==
    IF wrapper \in {"CustomLexerWrapper0", "CustomLexerWrapper1"} /\ ~is_complete_text(slice)
    THEN [exc |-> "TypeError", inner_called |-> FALSE, inner_arg |-> None]
    ELSE [exc |-> "none", inner_called |-> TRUE,
          inner_arg |-> IF wrapper = "CustomLexerWrapper0" THEN slice.text ELSE slice]

\* a custom lexer class is wrapped and, if that returned, driven with a slice
WrapAndLex(lexer_class, slice) ==
    /\ Idle
    /\ last' = [op |-> "wrap_lexer", lexer_class |-> lexer_class, slice |-> slice,
                wrapped |-> wrap_lexer(lexer_class),
                out |-> IF wrap_lexer(lexer_class).ok
                        THEN CustomLexerWrapper_lex(wrap_lexer(lexer_class).value, slice)
                        ELSE [exc |-> "not called", inner_called |-> FALSE, inner_arg |-> None]]
    /\ UNCHANGED <<conf, frontends, authored_rules, aug_log, token_source>>

\* Frontends of every kind on one pair of configs, and their parse and
\* parse_interactive on plain inputs.
NextStart ==
    \/ Done
    \/ \E p \in ParserNames \cup {<<"glr">>}, l \in LexerNames \cup {<<"standard">>} :
          ConstructFrontend(p, l)
    \/ \E i \in 1..MaxFrontends, input \in PlainInputs, s \in StartArgs : Parse(i, input, s)
    \/ \E i \in 1..MaxFrontends, s \in StartArgs : ParseInteractive(i, PlainText(<<"1">>), s)

InitStart == InitWith({GrammarOf({1, 2}), GrammarOf({2})}, StartDecls, {NoPyobjSetup})

SpecStart == InitStart /\ [][NextStart]_vars

\* Custom lexer classes wrapped for the configs and driven with slices.
NextLexer ==
    \/ Done
    \/ \E c \in LexerClasses, slice \in TextSlices : WrapAndLex(c, slice)

SpecLexer == InitStart /\ [][NextLexer]_vars

\* Template frontends, their term matcher and their parse.
NextMatch ==
    \/ Done
    \/ ConstructTemplateFrontend
    \/ \E i \in 1..MaxFrontends, input \in ParseInputs, s \in {None, <<"e">>} : Parse(i, input, s)
    \/ \E i \in 1..MaxFrontends, token \in MatchTokens,
          expected \in {e \in SUBSET MatchTerms : e # {} /\ Cardinality(e) <= 2} :
          Scan(i, expected, token)

InitMatch == InitWith({GrammarOf({1, 2})}, {<<<<"s">>>>, <<<<"s">>, <<"e">>>>}, PyobjSetups)

SpecMatch == InitMatch /\ [][NextMatch]_vars

\* Template frontends and the tokenizer run with their maps.
NextTokenize ==
    \/ Done
    \/ ConstructTemplateFrontend
    \/ \E i \in 1..MaxFrontends, tpl \in Templates, src \in BOOLEAN :
          TokenizeTemplate(i, IF src THEN WithSource(tpl) ELSE tpl)

InitTokenize ==
    InitWith({GrammarOf({1, 2}), GrammarOf({1, 2, 4})}, {<<<<"s">>, <<"e">>>>}, {TypedSetup})

SpecTokenize == InitTokenize /\ [][NextTokenize]_vars

\* The augmentation pass alone: frontends constructed again and again on one
\* pair of configs.
NextAugment ==
    \/ Done
    \/ ConstructTemplateFrontend

InitAugment == InitWith(Grammars, {<<<<"s">>, <<"e">>>>}, {NoPyobjSetup, TypedSetup})

SpecAugment == InitAugment /\ [][NextAugment]_vars

(* ---------------------------------------------------------------------- *)
(* splice_inserted_trees on the results of a backend                       *)
(* ---------------------------------------------------------------------- *)
\* Trees a host interpolates: one without children, one over a NUMBER token, and
\* one built by hand over a TREE__ token that carries a Tree.
CarriedTrees ==
    { Tree(<<"a">>, <<>>),
      Tree(<<"e">>, <<Token(NUMBER, StrVal(<<"1">>), NoMeta)>>),
      Tree(<<"e">>, <<Token(<<"TREE__", "A">>, Tree(<<"a">>, <<>>), NoMeta)>>) }

\* the tokens a backend result holds: a lexed NUMBER, a token of the grammar's own
\* TREE__E terminal (it carries a str), and the splice tokens of the carried trees
ResultTokens ==
    { Token(NUMBER, StrVal(<<"1">>), NoMeta), Token(<<"TREE__", "E">>, StrVal(<<"t">>), NoMeta) }
    \cup {Token(TreeTermName(t.data), t, NoMeta) : t \in CarriedTrees}

\* the Trees a backend builds, of depth up to d: a node over up to MaxChildren
\* tokens, or a node over a token and a node of depth up to d - 1
RECURSIVE ResultTrees(_)
ResultTrees(d) ==
    IF d <= 1
    THEN {Tree(<<"e">>, ch) : ch \in UNION {SeqsOf(ResultTokens, n) : n \in 0..MaxChildren}}
    ELSE ResultTrees(d - 1)
         \cup {Tree(<<"s">>, <<tok, sub>>) : tok \in ResultTokens, sub \in ResultTrees(d - 1)}

\* what a backend hands to the frontend: a Tree, or a bare token
BackendResults == ResultTrees(MaxDepth) \cup ResultTokens

\* splice_inserted_trees on a Tree, and again on the Tree it left
SpliceTree(t) ==
    /\ Idle
    /\ last' = [op |-> "splice", input |-> t, out |-> splice_inserted_trees(t),
                again |-> splice_inserted_trees(splice_inserted_trees(t))]
    /\ UNCHANGED <<conf, frontends, authored_rules, aug_log, token_source>>

\* TemplateEarleyFrontend.parse from the backend's return on (lines 450-474, for
\* an input without source info)
FinishParse(r) ==
    /\ Idle
    /\ last' = [op |-> "finish", input |-> r, out |-> SpliceResult(r)]
    /\ UNCHANGED <<conf, frontends, authored_rules, aug_log, token_source>>

NextSplice ==
    \/ Done
    \/ \E t \in ResultTrees(MaxDepth) : SpliceTree(t)
    \/ \E r \in BackendResults : FinishParse(r)

InitSplice == InitWith({GrammarOf({1, 2})}, {<<<<"s">>, <<"e">>>>}, {NoPyobjSetup})

SpecSplice == InitSplice /\ [][NextSplice]_vars

(* ---------------------------------------------------------------------- *)
(* TemplateEarleyFrontend._enhance_error                                   *)
(* ---------------------------------------------------------------------- *)
Lower(ch) ==
    CASE ch = "A" -> "a"
      [] ch = "E" -> "e"
      [] ch = "S" -> "s"
      [] OTHER -> ch

\* line 310: {v: k for k, v in tree_terminal_map.items()}, looked up with
\* .get(type): the last label mapped to the terminal, or None
TreeTerminalInverseGet(tmap, type) ==
    LET idx == {i \in 1..Len(tmap) : tmap[i][2] = type}
    IN  IF idx = {} THEN None ELSE tmap[CHOOSE i \in idx : \A j \in idx : j <= i][1]

\* the message of a failure: what _enhance_error put in front of it ("none":
\* nothing), the label it named, and the message the backend gave
Message(prefix, label) == [prefix |-> prefix, label |-> label, original |-> "backend message"]

OriginalMessage == Message("none", None)

\* lines 481-503: the message of the failure about token after _enhance_error
enhance_error(fe, input, token) ==
    IF input.kind # "template" THEN OriginalMessage
    ELSE IF token.type = PYOBJ THEN Message("Interpolated Python object", None)
    ELSE IF StartsWith(token.type, "TREE__")
    THEN LET label == TreeTerminalInverseGet(fe.tree_terminal_map, token.type)
         IN  Message("Interpolated Tree",
                     IF label # None THEN label
                     ELSE [i \in 1..(Len(token.type) - 1) |-> Lower(token.type[i + 1])])
    ELSE OriginalMessage

\* what a failed call did: the exception, the message it carries, whether the
\* backend's parse was reached, and what _verify_start returned or raised
Failure(exc, message, backend_called, verified) ==
    [exc |-> exc, message |-> message, backend_called |-> backend_called, verified |-> verified]

\* TemplateEarleyFrontend.parse when the backend raises UnexpectedToken on the
\* k-th token it takes from the token source (lines 416-448)
TemplateEarleyFrontend_parse_rejected(fe, input, s, k) ==
    LET chosen_start == verify_start(fe, s)
    IN  IF ~chosen_start.ok THEN Failure(chosen_start.exc, None, FALSE, chosen_start)
        ELSE IF input.kind = "template"
        THEN IF TemplateContext_init(TemplateContextKwargs) # "ok"
             THEN Failure(TemplateContext_init(TemplateContextKwargs), None, FALSE, chosen_start)
             ELSE LET toks == tokenize_template(input, Context(fe, input))
                  IN  IF k > Len(toks.tokens) THEN Failure(toks.exc, None, TRUE, chosen_start)
                      ELSE Failure("UnexpectedToken", enhance_error(fe, input, toks.tokens[k]),
                                   TRUE, chosen_start)
        ELSE LET text == input.strings[1]
                 lexed == BasicLexer_lex(Range(terminals), text, 0, Len(text))
             IN  IF k > Len(lexed.tokens) THEN Failure(lexed.exc, None, TRUE, chosen_start)
                 ELSE Failure("UnexpectedToken", enhance_error(fe, input, lexed.tokens[k]),
                              TRUE, chosen_start)

\* the tokens the backend is to be given for an input: those of the tokenizer
\* for a template, those of the plain lexer for a text, each with its origin
InputTokens(fe, input) ==
    IF input.kind = "template" THEN tokenize_template(input, Context(fe, input))
    ELSE LET text == input.strings[1]
             lexed == BasicLexer_lex(Range(terminals), text, 0, Len(text))
         IN  [tokens |-> lexed.tokens, exc |-> lexed.exc, label |-> None,
              from |-> [j \in 1..Len(lexed.tokens) |-> <<"seg", 1>>]]

\* a parse call on a template frontend whose grammar does not allow the k-th
\* token of the input
ParseRejected(i, input, s, k) ==
    /\ Idle
    /\ i \in 1..Len(frontends)
    /\ frontends[i].kind = "template"
    /\ k \in 1..Len(InputTokens(frontends[i], input).tokens)
    /\ last' = [op |-> "parse_rejected", fe |-> i, input |-> input, start_arg |-> s,
                token |-> InputTokens(frontends[i], input).tokens[k],
                from |-> InputTokens(frontends[i], input).from[k],
                out |-> TemplateEarleyFrontend_parse_rejected(frontends[i], input, s, k)]
    /\ UNCHANGED <<conf, frontends, authored_rules, aug_log, token_source>>

\* the inputs of the rejected parses: texts, static templates, one interpolation
\* after a literal
RejectedInputs ==
    {PlainText(t) : t \in Segments \cup {<<"t">>}}
    \cup {Template(<<t>>, <<>>, NoSource) : t \in Segments \cup {<<"t">>}}
    \cup {Template(<<t, <<>>>>, Interps(<<v>>), NoSource) : t \in {<<>>, <<"1">>}, v \in Values}

NextRejected ==
    \/ Done
    \/ ConstructTemplateFrontend
    \/ \E i \in 1..MaxFrontends, input \in RejectedInputs, s \in {None, <<"e">>}, k \in 1..2 :
          ParseRejected(i, input, s, k)

InitRejected ==
    InitWith({GrammarOf({1, 2}), GrammarOf({1, 2, 3}), GrammarOf({1, 2, 4})},
             {<<<<"s">>>>, <<<<"s">>, <<"e">>>>}, {TypedSetup})

SpecRejected == InitRejected /\ [][NextRejected]_vars

(* ---------------------------------------------------------------------- *)
(* _TemplateTokenSource                                                    *)
(* ---------------------------------------------------------------------- *)
\* _TemplateTokenSource.__init__: iter(iterator) over the generator that
\* tokenize_template returned; `stream` is what that generator will yield and
\* how it ends, `pos` how many tokens have been taken from it, `finished`
\* whether it has ended, `delivered` the indices of the tokens handed out
TemplateTokenSource_init(stream) ==
    [open |-> TRUE, stream |-> stream, pos |-> 0, finished |-> FALSE,
     lex_calls |-> 0, delivered |-> <<>>]

\* a lex that starts the sequence over on every call
TemplateTokenSource_lex_Restarting(src) ==
    [src EXCEPT !.lex_calls = @ + 1, !.pos = 0, !.finished = FALSE]

\* _TemplateTokenSource.lex(expects): returns self._iterator, the one iterator
TemplateTokenSource_lex(src) == [src EXCEPT !.lex_calls = @ + 1]

\* next() on the iterator: the next token of the generator; at its end the
\* exception it raised, or StopIteration, and StopIteration ever after
IteratorNext(src) ==
    IF src.finished THEN [src |-> src, yielded |-> None, exc |-> "StopIteration"]
    ELSE IF src.pos < Len(src.stream.tokens)
    THEN [src |-> [src EXCEPT !.pos = @ + 1, !.delivered = Append(@, src.pos + 1)],
          yielded |-> src.stream.tokens[src.pos + 1], exc |-> "none"]
    ELSE [src |-> [src EXCEPT !.finished = TRUE], yielded |-> None,
          exc |-> IF src.stream.exc = "none" THEN "StopIteration" ELSE src.stream.exc]

\* lines 437-440 of TemplateEarleyFrontend.parse: a token source made of a call
\* of tokenize_template
NewTokenSource(i, tpl) ==
    /\ Idle
    /\ i \in 1..Len(frontends)
    /\ frontends[i].kind = "template"
    /\ token_source' = TemplateTokenSource_init(tokenize_template(tpl, Context(frontends[i], tpl)))
    /\ last' = [op |-> "token_source", fe |-> i, input |-> tpl]
    /\ UNCHANGED <<conf, frontends, authored_rules, aug_log>>

\* the parser asks the token source for its tokens
LexTokenSource ==
    /\ Idle
    /\ token_source.open
    /\ token_source.lex_calls < MaxLexCalls
    /\ token_source' = TemplateTokenSource_lex(token_source)
    /\ last' = [op |-> "lex", before |-> token_source]
    /\ UNCHANGED <<conf, frontends, authored_rules, aug_log>>

\* the parser takes the next token from the iterator that lex returned
NextToken ==
    /\ Idle
    /\ token_source.open
    /\ token_source.lex_calls > 0
    /\ LET r == IteratorNext(token_source)
       IN  /\ token_source' = r.src
           /\ last' = [op |-> "next", before |-> token_source,
                       yielded |-> r.yielded, exc |-> r.exc]
    /\ UNCHANGED <<conf, frontends, authored_rules, aug_log>>

\* the templates a token source is made of: those of at most one interpolation
SourceTemplates == {tpl \in Templates : Len(tpl.interpolations) <= 1}

NextSource ==
    \/ Done
    \/ ConstructTemplateFrontend
    \/ \E i \in 1..MaxFrontends, tpl \in SourceTemplates : NewTokenSource(i, tpl)
    \/ LexTokenSource
    \/ NextToken

InitSource == InitWith({GrammarOf({1, 2})}, {<<<<"s">>, <<"e">>>>}, {TypedSetup})

SpecSource == InitSource /\ [][NextSource]_vars

(* ---------------------------------------------------------------------- *)
(* CYK_FrontEnd._transform                                                 *)
(* ---------------------------------------------------------------------- *)
\* the raw tree of the CYK parser: every subtree names the rule it came from
RawTree(rule, children) == [kind |-> "Tree", rule |-> rule, children |-> children]

\* the rules callbacks are registered for
CykRules == {"r1", "r2"}

\* the raw trees transformed: d levels of subtrees over NUMBER tokens, a subtree
\* beside a token on either side, and two subtrees of one level side by side
RECURSIVE RawTrees(_)
RawTrees(d) ==
    LET tok == Token(NUMBER, StrVal(<<"1">>), NoMeta)
        flat == {RawTree(r, ch) : r \in CykRules, ch \in {<<>>, <<tok>>}}
    IN  IF d <= 1 THEN flat
        ELSE flat
             \cup {RawTree(r, ch) : r \in CykRules,
                      ch \in UNION {{<<sub>>, <<tok, sub>>, <<sub, tok>>} : sub \in RawTrees(d - 1)}}
             \cup {RawTree(r, <<a, b>>) : r \in CykRules, a \in RawTrees(1), b \in RawTrees(1)}

\* the subtree at a path of child indices
RECURSIVE NodeAt(_, _)
NodeAt(tree, path) == IF path = <<>> THEN tree ELSE NodeAt(tree.children[Head(path)], Tail(path))

\* the paths of the children of the subtree at path that are subtrees
TreeChildPaths(tree, path) ==
    LET node == NodeAt(tree, path)
        idx == {i \in 1..Len(node.children) : IsTree(node.children[i])}
    IN  [k \in 1..Cardinality(idx) |->
            Append(path, CHOOSE i \in idx : Cardinality({j \in idx : j < i}) = k - 1)]

Reversed(q) == [k \in 1..Len(q) |-> q[Len(q) + 1 - k]]

\* the queue of Tree.iter_subtrees: each subtree met adds its subtree children,
\* last child first
RECURSIVE SubtreeQueue(_, _, _)
SubtreeQueue(tree, queue, k) ==
    IF k > Len(queue) THEN queue
    ELSE SubtreeQueue(tree, queue \o Reversed(TreeChildPaths(tree, queue[k])), k + 1)

\* Tree.iter_subtrees: the subtrees in the reverse of the order they were queued
iter_subtrees(tree) == Reversed(SubtreeQueue(tree, <<<<>>>>, 1))

\* the children every subtree object has before the transformation
InitialChildren(tree) == [p \in Range(iter_subtrees(tree)) |-> NodeAt(tree, p).children]

\* what the callback of a rule returns for the children it is called with
CallbackResult(rule, args) == [kind |-> "result", rule |-> rule, args |-> args]

\* a call that hands the callback the children the parser made
apply_callback_RawChildren(tree, heap, path) ==
    CallbackResult(NodeAt(tree, path).rule, NodeAt(tree, path).children)

\* _apply_callback (lines 262-263): self.callbacks[tree.rule](tree.children),
\* with the children the subtree object has at the time of the call
apply_callback(tree, heap, path) == CallbackResult(NodeAt(tree, path).rule, heap[path])

\* line 258, children from index i on: st = [heap, log of the calls made]
RECURSIVE TransformChildren(_, _, _, _)
TransformChildren(tree, path, i, st) ==
    IF i > Len(st.heap[path]) THEN st
    ELSE LET c == st.heap[path][i]
         IN  IF IsTree(c)
             THEN LET res == apply_callback(tree, st.heap, Append(path, i))
                  IN  TransformChildren(tree, path, i + 1,
                          [heap |-> [st.heap EXCEPT ![path][i] = res],
                           log |-> Append(st.log, [node |-> Append(path, i), result |-> res])])
             ELSE TransformChildren(tree, path, i + 1, st)

\* lines 257-258: the loop over the subtrees
RECURSIVE TransformSubtrees(_, _, _)
TransformSubtrees(tree, subtrees, st) ==
    IF subtrees = <<>> THEN st
    ELSE TransformSubtrees(tree, Tail(subtrees), TransformChildren(tree, Head(subtrees), 1, st))

\* CYK_FrontEnd._transform: the value returned and the callback calls in order
CYK_transform(tree) ==
    LET st == TransformSubtrees(tree, iter_subtrees(tree),
                                [heap |-> InitialChildren(tree), log |-> <<>>])
        res == apply_callback(tree, st.heap, <<>>)
    IN  [value |-> res, log |-> Append(st.log, [node |-> <<>>, result |-> res])]

CykTransform(tree) ==
    /\ Idle
    /\ last' = [op |-> "transform", input |-> tree, out |-> CYK_transform(tree)]
    /\ UNCHANGED <<conf, frontends, authored_rules, aug_log, token_source>>

NextCyk ==
    \/ Done
    \/ \E tree \in RawTrees(MaxDepth + 1) : CykTransform(tree)

SpecCyk == InitSplice /\ [][NextCyk]_vars

(* ---------------------------------------------------------------------- *)
(* Properties                                                              *)
(* ---------------------------------------------------------------------- *)
\* dict equality: the same keys with the same values, whatever the insertion order
DictEq(d1, d2) == Range(d1) = Range(d2)

SameOrigin(r1, r2) == r1.origin.name = r2.origin.name

\* the rules the last augmentation run appended
LastNewIdx == (Len(last.rules_before) + 1)..Len(rules)

\* C7: an augmentation run on configs that were augmented before adds no rule and
\* no terminal and returns the map the first run returned.
C7_ReAugmentationIdempotent ==
    (last.op = "construct" /\ Len(aug_log) >= 2) =>
        /\ rules = last.rules_before
        /\ terminals = last.terminals_before
        /\ DictEq(aug_log[Len(aug_log)], aug_log[1])

\* C8: every rule an augmentation run synthesizes has an order greater than the
\* order of every rule its origin had before the run, and no two synthesized rules
\* of one origin (of this run or an earlier one) have the same order.
C8_SynthesizedOrdersFresh ==
    /\ last.op = "construct" =>
          \A i \in LastNewIdx : \A j \in 1..Len(last.rules_before) :
              SameOrigin(rules[i], last.rules_before[j]) => rules[i].order > last.rules_before[j].order
    /\ \A i, k \in (Len(authored_rules) + 1)..Len(rules) :
          (i # k /\ SameOrigin(rules[i], rules[k])) => rules[i].order # rules[k].order

\* C8 witness: a run has synthesized two rules for an origin that had two rules.
C8_Witness ==
    /\ last.op = "construct"
    /\ \E i, k \in LastNewIdx : i # k /\ SameOrigin(rules[i], rules[k])
          /\ Cardinality({j \in 1..Len(last.rules_before) :
                 SameOrigin(last.rules_before[j], rules[i])}) >= 2

\* C9: the rule list never holds two rules with the same (origin, expansion).
C9_NoDuplicateRules ==
    \A i, j \in 1..Len(rules) : RuleEq(rules[i], rules[j]) => i = j

\* C9 witness: a run has met both kinds of duplicate: an authored rule with the
\* origin and expansion of a splice rule, and two labels of one origin with the
\* same splice terminal.
C9_Witness ==
    /\ last.op = "construct"
    /\ LET before == last.rules_before
           lpn == labels_per_nonterminal(before)
       IN  /\ \E o \in DOMAIN lpn : \E l1, l2 \in lpn[o] :
                  l1 # l2 /\ TreeTermName(l1) = TreeTermName(l2)
           /\ \E i \in 1..Len(authored_rules) : \E l \in lpn[authored_rules[i].origin.name] :
                  RuleEq(authored_rules[i], SpliceRule(authored_rules[i].origin.name, TreeTermName(l), 0))

\* C19: after an augmentation run every origin has, for every label it
\* produces, a unit rule origin -> [splice terminal of the label] in the rule
\* list, and every rule the run synthesized has options.expand1 true and
\* options.template_source set.
C19_SpliceRulesMarked ==
    last.op = "construct" =>
        /\ LET lpn == labels_per_nonterminal(last.rules_before)
           IN  \A o \in DOMAIN lpn : \A l \in lpn[o] : \E i \in 1..Len(rules) :
                   RuleEq(rules[i], SpliceRule(o, TreeTermName(l), 0))
        /\ \A i \in LastNewIdx :
               /\ rules[i].options.expand1
               /\ rules[i].options.template_source # None

\* C24: the map an augmentation run returns is injective: no two labels have the
\* same splice terminal, and the terminal registered under a label's terminal
\* name has the tree pattern tagged with that label.
C24_LabelMapInjective ==
    last.op = "construct" =>
        LET tmap == aug_log[Len(aug_log)]
        IN  /\ \A i, j \in 1..Len(tmap) : tmap[i][2] = tmap[j][2] => i = j
            /\ \A i \in 1..Len(tmap) :
                   /\ tmap[i][2] \in DOMAIN terminals_by_name
                   /\ terminals_by_name[tmap[i][2]].pattern = PatternTree(tmap[i][1])

\* C25: an augmentation run only appends: every rule and every terminal present
\* before it is afterwards at the same position and unchanged, what the run
\* synthesized comes after them, and a terminal whose name a synthesized terminal
\* would have is kept as it was, under its name once.
C25_AugmentationOnlyAppends ==
    last.op = "construct" =>
        /\ Len(rules) >= Len(last.rules_before)
        /\ \A i \in 1..Len(last.rules_before) : rules[i] = last.rules_before[i]
        /\ Len(terminals) >= Len(last.terminals_before)
        /\ \A i \in 1..Len(last.terminals_before) : terminals[i] = last.terminals_before[i]
        /\ \A i \in 1..Len(last.terminals_before) :
               /\ terminals_by_name[terminals[i].name] = last.terminals_before[i]
               /\ Cardinality({j \in 1..Len(terminals) : terminals[j].name = terminals[i].name}) = 1

\* C25 witness: a run has appended a rule and a terminal, and the splice terminal
\* of one of its labels was a terminal of the grammar's own.
C25_Witness ==
    /\ last.op = "construct"
    /\ Len(rules) > Len(last.rules_before)
    /\ Len(terminals) > Len(last.terminals_before)
    /\ Len(last.rules_before) > 0
    /\ \E i \in 1..Len(last.terminals_before) :
           /\ last.terminals_before[i].name \in DictValues(aug_log[Len(aug_log)])
           /\ last.terminals_before[i].pattern = PatternRE

(* ---------------------------------------------------------------------- *)
(* Start symbols                                                           *)
(* ---------------------------------------------------------------------- *)
\* the last operation is a parse or parse_interactive call on a frontend of the kind
LastCallOn(kind) ==
    /\ last.op \in {"parse", "parse_interactive"}
    /\ frontends[last.fe].kind = kind

\* C1: ParsingFrontend._verify_start returns the only declared start when start is
\* omitted, raises ConfigurationError when start is omitted and several are
\* declared, raises ConfigurationError for a start that is not declared, and
\* returns a declared start unchanged; when it raises, parse and
\* parse_interactive raise the same exception without calling the backend.
C1_VerifyStartContract ==
    (LastCallOn("core") /\ last.out.verified # NotCalled) =>
        LET s == last.start_arg
            v == last.out.verified
        IN  /\ (s = None /\ Len(start) = 1) => v = Return(start[1])
            /\ (s = None /\ Len(start) > 1) => v = Raise("ConfigurationError")
            /\ (s # None /\ s \notin Range(start)) => v = Raise("ConfigurationError")
            /\ (s # None /\ s \in Range(start)) => v = Return(s)
            /\ ~v.ok => (~last.out.backend_called /\ last.out.exc = v.exc)

\* C1 witness: a parse on a core frontend was given the name of a nonterminal of the
\* grammar that is not a declared start and was refused before the backend ran.
C1_Witness ==
    /\ LastCallOn("core")
    /\ last.op = "parse"
    /\ last.start_arg # None
    /\ last.start_arg \notin Range(start)
    /\ last.start_arg \in NonterminalNames(rules)
    /\ last.out.exc = "ConfigurationError"
    /\ ~last.out.backend_called

\* C2: a parse on a template frontend with a given start that is not among the
\* declared start symbols (parser_conf.start after construction) raises
\* ConfigurationError.
C2_TemplateUndeclaredStartRejected ==
    (LastCallOn("template") /\ last.op = "parse"
        /\ last.start_arg # None /\ last.start_arg \notin Range(start)) =>
        last.out.exc = "ConfigurationError"

(* ---------------------------------------------------------------------- *)
(* Placeholders                                                            *)
(* ---------------------------------------------------------------------- *)
\* the type registered for the typed placeholder terminal name, or None
RegisteredType(fe, name) ==
    LET key == DictGet(fe.typed_expected, name)
    IN  IF key = None THEN None ELSE DictGet(fe.pyobj_types, key)

\* a token a placeholder terminal of the name considers: its own type or the generic one
IsPlaceholderToken(name, token) == token.type \in {name, PYOBJ}

\* C3: a typed placeholder terminal with a registered type matches a placeholder
\* token iff the token's value is an instance of the type; for any other value the
\* matcher raises TypeError, and the scan fails with TypeError even when another
\* expected terminal matches the token.
C3_TypedPlaceholderMatch ==
    last.op = "scan" =>
        \A t \in last.expected :
            LET X == RegisteredType(frontends[last.fe], t)
            IN  (X # None /\ IsPlaceholderToken(t, last.token)) =>
                    /\ last.matched[t] = "True" <=> IsInstance(last.token.value, X)
                    /\ ~IsInstance(last.token.value, X) =>
                           (last.matched[t] = "TypeError" /\ last.out = "TypeError")

\* C3 witness: a token whose value is not an instance of the registered type was
\* scanned where both the typed and the generic placeholder were expected; the
\* generic one matched and the scan still ended with TypeError.
C3_Witness ==
    /\ last.op = "scan"
    /\ last.expected = {PYOBJ, PYOBJ_N}
    /\ RegisteredType(frontends[last.fe], PYOBJ_N) = <<"int">>
    /\ last.token = Token(PYOBJ, ObjVal(<<"Image">>), NoMeta)
    /\ last.matched[PYOBJ] = "True"
    /\ last.matched[PYOBJ_N] = "TypeError"
    /\ last.out = "TypeError"

\* C4: no template frontend exists in which a typed placeholder terminal declared
\* by the grammar has no registered type.
C4_TypedPlaceholderHasType ==
    \A i \in 1..Len(frontends) :
        frontends[i].kind = "template" =>
            \A k \in 1..Len(frontends[i].typed_expected) :
                RegisteredType(frontends[i], frontends[i].typed_expected[k][1]) # None

\* the typed placeholder terminals whose registered type the value is an instance of
TypedTerminalsFor(fe, value) ==
    {fe.typed_expected[k][1] : k \in {j \in 1..Len(fe.typed_expected) :
        LET X == RegisteredType(fe, fe.typed_expected[j][1])
        IN  X # None /\ IsInstance(value, X)}}

\* C5: the token made for an interpolated opaque value carries that value, and its
\* type is a typed placeholder terminal whose registered type the value's runtime
\* type matches, or the generic placeholder when there is none.
C5_TypedTokenForMatchingValue ==
    last.op = "tokenize" =>
        \A k \in 1..Len(last.out.tokens) :
            LET from == last.out.from[k]
                value == last.input.interpolations[from[2]].value
                typed == TypedTerminalsFor(frontends[last.fe], value)
            IN  (from[1] = "interp" /\ value.kind = "obj") =>
                    /\ last.out.tokens[k].value = value
                    /\ IF typed = {} THEN last.out.tokens[k].type = PYOBJ
                       ELSE last.out.tokens[k].type \in typed

(* ---------------------------------------------------------------------- *)
(* Splicing                                                                *)
(* ---------------------------------------------------------------------- *)
\* the labels the rules of the grammar a frontend was constructed from produce
GrammarLabels(fe) == {LabelOf(fe.built_from[j]) : j \in 1..Len(fe.built_from)}

\* the tokens of the output made for interpolation i
TokensOfInterp(out, i) == {k \in 1..Len(out.tokens) : out.from[k] = <<"interp", i>>}

\* C6: for an interpolated tree of label L, the tokenizer emits exactly one token
\* of L's splice terminal carrying the tree iff a rule of the grammar produces L;
\* otherwise it raises ValueError naming L and delivers no token for that
\* interpolation nor for anything after it.
C6_SpliceTokenIffLabelProduced ==
    last.op = "tokenize" =>
        LET fe == frontends[last.fe]
            out == last.out
            interps == last.input.interpolations
            reached == Cardinality({k \in 1..Len(out.tokens) : out.from[k][1] = "interp"}) + 1
        IN  /\ \A i \in 1..Len(interps) :
                   interps[i].value.kind = "Tree" =>
                       /\ Cardinality(TokensOfInterp(out, i)) <= 1
                       /\ interps[i].value.data \notin GrammarLabels(fe) =>
                              (TokensOfInterp(out, i) = {} /\ out.exc # "none")
                       /\ \A k \in TokensOfInterp(out, i) :
                              /\ out.tokens[k].type = TreeTermName(interps[i].value.data)
                              /\ out.tokens[k].value = interps[i].value
                              /\ interps[i].value.data \in GrammarLabels(fe)
            /\ out.exc = "none" => \A i \in 1..Len(interps) : Cardinality(TokensOfInterp(out, i)) = 1
            /\ out.exc = "ValueError" =>
                   /\ reached <= Len(interps)
                   /\ interps[reached].value.kind = "Tree"
                   /\ interps[reached].value.data \notin GrammarLabels(fe)
                   /\ out.label = interps[reached].value.data
                   /\ \A k \in 1..Len(out.tokens) : out.from[k][2] <= reached
                   /\ \A i \in reached..Len(interps) : TokensOfInterp(out, i) = {}

\* C6 witness: of two interpolated trees the first, of a label the grammar
\* produces, became a token of its splice terminal, and the second, of a label no
\* rule produces, ended the stream with a ValueError naming it.
C6_Witness ==
    /\ last.op = "tokenize"
    /\ Len(last.input.interpolations) >= 2
    /\ last.input.interpolations[1].value.kind = "Tree"
    /\ last.input.interpolations[1].value.data \in GrammarLabels(frontends[last.fe])
    /\ last.input.interpolations[2].value.kind = "Tree"
    /\ last.input.interpolations[2].value.data \notin GrammarLabels(frontends[last.fe])
    /\ Len(last.out.tokens) = 1
    /\ last.out.tokens[1].type = TreeTermName(last.input.interpolations[1].value.data)
    /\ last.out.exc = "ValueError"
    /\ last.out.label = last.input.interpolations[2].value.data

(* ---------------------------------------------------------------------- *)
(* Static templates                                                        *)
(* ---------------------------------------------------------------------- *)
\* C10: parsing the template of the single segment T and no interpolation fails
\* exactly when parsing the plain string T with the same frontend and start fails,
\* and otherwise yields an equal tree.
C10_StaticTemplateEqualsPlain ==
    (LastCallOn("template") /\ last.op = "parse" /\ last.input.kind = "template"
        /\ last.input.interpolations = <<>>) =>
        LET plain == TemplateEarleyFrontend_parse(frontends[last.fe],
                         PlainText(last.input.strings[1]), last.start_arg)
        IN  /\ (last.out.exc = "none") <=> (plain.exc = "none")
            /\ (last.out.exc = "none" /\ plain.exc = "none") => last.out.result = plain.result

(* ---------------------------------------------------------------------- *)
(* Splicing of the parse result                                            *)
(* ---------------------------------------------------------------------- *)
\* C11: splice_inserted_trees applied again to a tree it has spliced changes
\* nothing.
C11_SpliceIdempotent ==
    last.op = "splice" => last.again = last.out

\* out is node with, at every depth of node, each splice token replaced by exactly
\* the Tree it carries, and number, order and everything else kept
RECURSIVE SplicedOnce(_, _)
SplicedOnce(node, out) ==
    /\ IsTree(out)
    /\ out.data = node.data
    /\ Len(out.children) = Len(node.children)
    /\ \A i \in 1..Len(node.children) :
          IF IsSpliceToken(node.children[i]) THEN out.children[i] = node.children[i].value
          ELSE IF IsTree(node.children[i]) THEN SplicedOnce(node.children[i], out.children[i])
          ELSE out.children[i] = node.children[i]

\* C20: from a Tree the backend returned, parse returns it with every splice token
\* at every depth replaced by exactly the Tree it carries, number and order of
\* children kept and the carried Trees as they were; from a bare splice token it
\* returns the carried Tree as it was.
C20_OnePassSplice ==
    last.op = "finish" =>
        IF IsSpliceToken(last.input) THEN last.out = last.input.value
        ELSE IF IsTree(last.input) THEN SplicedOnce(last.input, last.out)
        ELSE last.out = last.input

(* ---------------------------------------------------------------------- *)
(* Positions of the tokens                                                 *)
(* ---------------------------------------------------------------------- *)
\* C12: when the template carries no source info, every token tokenize_template
\* delivers, lexed from a segment or made for an interpolation, has all six
\* position fields null.
C12_NoSourceNoPositions ==
    (last.op = "tokenize" /\ ~last.input.source_info.present) =>
        \A k \in 1..Len(last.out.tokens) : last.out.tokens[k].meta = NoMeta

\* the tokens of the last tokenization that were made for an opaque value, each
\* with the span of its interpolation in the source text
PlaceholderTokensWithSpan ==
    {<<last.out.tokens[k], last.input.source_info.interpolation_spans[last.out.from[k][2]]>> :
        k \in {j \in 1..Len(last.out.tokens) :
                  /\ last.out.from[j][1] = "interp"
                  /\ last.input.interpolations[last.out.from[j][2]].value.kind = "obj"}}

\* C13: with source info, the placeholder token of an interpolation with span
\* (s, e) has start_pos = s, end_pos = e, line = 1 + the number of newlines in
\* text[0:s], and column = 1 + the number of characters between the last newline
\* before s (or the start of the text) and s.
C13_PlaceholderPosition ==
    (last.op = "tokenize" /\ last.input.source_info.present) =>
        \A p \in PlaceholderTokensWithSpan :
            LET text == last.input.source_info.text
                meta == p[1].meta
                s == p[2][1]
            IN  /\ meta.start_pos = s
                /\ meta.end_pos = p[2][2]
                /\ meta.line = 1 + Cardinality({j \in 1..s : text[j] = "\n"})
                /\ \E c \in 1..(s + 1) :
                       /\ meta.column = c
                       /\ c = s + 1 \/ text[s - c + 1] = "\n"
                       /\ \A j \in (s - c + 2)..s : text[j] # "\n"

\* C13 witness: a placeholder token was made for an interpolation that follows one
\* character on the second line of the source text: line 2, column 2.
C13_Witness ==
    /\ last.op = "tokenize"
    /\ last.input.source_info.present
    /\ \E p \in PlaceholderTokensWithSpan :
           /\ p[2] = <<2, 4>>
           /\ p[1].meta.line = 2
           /\ p[1].meta.column = 2
           /\ p[1].meta.start_pos = 2
           /\ p[1].meta.end_pos = 4

(* ---------------------------------------------------------------------- *)
(* The generic placeholder                                                 *)
(* ---------------------------------------------------------------------- *)
\* the tokens of the last tokenization, each with the value interpolated for it
InterpTokensWithValue ==
    {<<last.out.tokens[k], last.input.interpolations[last.out.from[k][2]].value>> :
        k \in {j \in 1..Len(last.out.tokens) : last.out.from[j][1] = "interp"}}

\* C14: for every opaque value interpolated, the tokenizer delivers a token that
\* carries the value and that the matcher of the generic placeholder terminal
\* accepts, whatever the type of the value, without raising.
C14_GenericPlaceholderAcceptsAny ==
    last.op = "tokenize" =>
        \A p \in InterpTokensWithValue :
            p[2].kind = "obj" =>
                /\ p[1].value = p[2]
                /\ match(frontends[last.fe], PYOBJ, p[1]) = "True"

\* C14 witness: on configs that declare the generic placeholder and a typed one
\* for int, an Image was interpolated and got a token that carries it and that
\* the generic placeholder matches.
C14_Witness ==
    /\ last.op = "tokenize"
    /\ PYOBJ \in DOMAIN terminals_by_name
    /\ RegisteredType(frontends[last.fe], PYOBJ_N) = <<"int">>
    /\ \E p \in InterpTokensWithValue :
           /\ p[2] = ObjVal(<<"Image">>)
           /\ p[1].value = p[2]
           /\ match(frontends[last.fe], PYOBJ, p[1]) = "True"

(* ---------------------------------------------------------------------- *)
(* Frontend construction                                                   *)
(* ---------------------------------------------------------------------- *)
\* the pairings of a parser name and a lexer name that are not supported
UnsupportedPairing(parser, lexer) ==
    \/ lexer = <<"template">> /\ parser # <<"earley">>
    \/ parser = <<"cyk">> /\ lexer # <<"basic">>
    \/ parser = <<"lalr">> /\ lexer \notin {<<"basic">>, <<"contextual">>}
    \/ parser = <<"earley">>
         /\ lexer \notin {<<"basic">>, <<"dynamic">>, <<"dynamic_complete">>, <<"template">>}
    \/ parser \notin {<<"lalr">>, <<"earley">>, <<"cyk">>}

\* C15: constructing a frontend for an unsupported pairing of parser and lexer
\* names raises ConfigurationError and makes no frontend.
C15_UnsupportedPairingRejected ==
    (last.op = "construct" /\ UnsupportedPairing(last.parser, last.lexer)) =>
        /\ last.outcome = "ConfigurationError"
        /\ frontends = last.frontends_before

\* C15 witness: the template lexer was asked for with lalr after a frontend had
\* been constructed; the call raised and the frontends are the ones before it.
C15_Witness ==
    /\ last.op = "construct"
    /\ last.parser = <<"lalr">>
    /\ last.lexer = <<"template">>
    /\ last.outcome = "ConfigurationError"
    /\ Len(frontends) = 1
    /\ frontends = last.frontends_before

\* C16: parse_interactive on a frontend whose backend is not lalr raises
\* ConfigurationError without reaching the backend, the template frontend
\* included.
C16_InteractiveOnlyLalr ==
    (last.op = "parse_interactive" /\ frontends[last.fe].backend # <<"lalr">>) =>
        /\ last.out.exc = "ConfigurationError"
        /\ ~last.out.backend_called

(* ---------------------------------------------------------------------- *)
(* Custom lexers                                                           *)
(* ---------------------------------------------------------------------- *)
\* the capability level of a custom lexer class: the declared one, 0 when none is
DeclaredLevel(lexer_class) == IF lexer_class.declares THEN lexer_class.future_interface ELSE 0

\* C17: a custom lexer of level 0 or 1 (0 when none is declared) driven with a
\* slice that is not the complete text raises TypeError before lex of the wrapped
\* lexer is called; a level-2 class is returned unwrapped; for any other level
\* _wrap_lexer raises.
C17_CustomLexerLevels ==
    last.op = "wrap_lexer" =>
        LET level == DeclaredLevel(last.lexer_class)
            partial == last.slice.start # 0 \/ last.slice.end # Len(last.slice.text)
        IN  /\ (level \in {0, 1} /\ partial) =>
                   (last.wrapped.ok /\ last.out.exc = "TypeError" /\ ~last.out.inner_called)
            /\ level = 2 => (last.wrapped.ok /\ last.wrapped.value = "lexer_class")
            /\ level \notin {0, 1, 2} => (~last.wrapped.ok /\ ~last.out.inner_called)

\* C17 witness: a class that declares no level was wrapped and driven with the
\* second character of a two-character text; the wrapper raised TypeError and the
\* wrapped lexer was not called.
C17_Witness ==
    /\ last.op = "wrap_lexer"
    /\ ~last.lexer_class.declares
    /\ last.slice = TextSlice(<<"\n", "1">>, 1, 2)
    /\ last.wrapped = Return("CustomLexerWrapper0")
    /\ last.out.exc = "TypeError"
    /\ ~last.out.inner_called

\* C18: the tokens of a token source are handed out once each, in order, however
\* often lex is called: a lex call starts nothing over, and once the iterator
\* has ended it yields nothing more; only a new call of tokenize_template gives
\* a new sequence
C18_TokenSourceSingleUse ==
    /\ token_source.open =>
          /\ token_source.pos <= Len(token_source.stream.tokens)
          /\ token_source.delivered = [k \in 1..token_source.pos |-> k]
    /\ last.op = "lex" =>
          /\ token_source.pos = last.before.pos
          /\ token_source.finished = last.before.finished
          /\ token_source.delivered = last.before.delivered
    /\ (last.op = "next" /\ last.before.finished) =>
          /\ last.exc = "StopIteration"
          /\ token_source.delivered = last.before.delivered

\* a source of two tokens or more has been drained, lex has been called a second
\* time, and a further next() has come back empty
C18_Witness ==
    /\ last.op = "next"
    /\ last.before.finished
    /\ last.exc = "StopIteration"
    /\ token_source.lex_calls = MaxLexCalls
    /\ Len(token_source.delivered) >= 2
    /\ Len(token_source.delivered) = Len(token_source.stream.tokens)

(* ---------------------------------------------------------------------- *)
(* The order of the tokens                                                 *)
(* ---------------------------------------------------------------------- *)
\* the place of a token's origin in the template: segment i, then interpolation i
OriginRank(from) == IF from[1] = "seg" THEN 2 * from[2] - 1 ELSE 2 * from[2]

\* the names of the splice terminals of a frontend's map and of its placeholder
\* terminals
SpliceAndPlaceholderNames(fe) ==
    {fe.tree_terminal_map[i][2] : i \in 1..Len(fe.tree_terminal_map)}
    \cup {PYOBJ} \cup {fe.typed_expected[i][1] : i \in 1..Len(fe.typed_expected)}

\* the tokens come in template order, an interpolation gives one token (none once
\* the stream has been ended by an exception), an empty segment gives none
TokensInTemplateOrder ==
    last.op = "tokenize" =>
        LET out == last.out
            tpl == last.input
        IN  /\ \A j, k \in 1..Len(out.tokens) :
                   j < k => OriginRank(out.from[j]) <= OriginRank(out.from[k])
            /\ \A i \in 1..Len(tpl.interpolations) :
                   /\ Cardinality(TokensOfInterp(out, i)) <= 1
                   /\ out.exc = "none" => Cardinality(TokensOfInterp(out, i)) = 1
            /\ \A i \in 1..Len(tpl.strings) :
                   tpl.strings[i] = <<>> =>
                       ~\E k \in 1..Len(out.tokens) : out.from[k] = <<"seg", i>>

\* C21: tokenize_template emits the tokens in template order, one token for
\* every interpolation and none for an empty segment, and no token lexed from
\* literal text has the type of a splice terminal or of a placeholder terminal.
C21_TemplateOrderOrdinaryLiterals ==
    /\ TokensInTemplateOrder
    /\ last.op = "tokenize" =>
           \A k \in 1..Len(last.out.tokens) :
               last.out.from[k][1] = "seg" =>
                   last.out.tokens[k].type \notin SpliceAndPlaceholderNames(frontends[last.fe])

(* ---------------------------------------------------------------------- *)
(* Callbacks leaves first                                                  *)
(* ---------------------------------------------------------------------- *)
\* the calls of the last transformation made for the subtree at path
CallsFor(path) == {k \in 1..Len(last.out.log) : last.out.log[k].node = path}

IsStrictPrefix(p, q) == Len(p) < Len(q) /\ \A i \in 1..Len(p) : p[i] = q[i]

\* C22: _transform calls the callback of every subtree's rule exactly once, after
\* the callbacks of all the subtree's descendants, with children in which every
\* child subtree is replaced by the result of its callback, and returns the result
\* of the root's callback.
C22_CallbacksLeavesFirst ==
    last.op = "transform" =>
        LET tree == last.input
            log == last.out.log
            paths == Range(iter_subtrees(tree))
        IN  /\ \A p \in paths : Cardinality(CallsFor(p)) = 1
            /\ \A k \in 1..Len(log) : log[k].node \in paths
            /\ \A j, k \in 1..Len(log) :
                   IsStrictPrefix(log[k].node, log[j].node) => j < k
            /\ \A k \in 1..Len(log) :
                   LET node == NodeAt(tree, log[k].node)
                   IN  /\ log[k].result.rule = node.rule
                       /\ Len(log[k].result.args) = Len(node.children)
                       /\ \A i \in 1..Len(node.children) :
                              IF IsTree(node.children[i])
                              THEN \E j \in CallsFor(Append(log[k].node, i)) :
                                       log[k].result.args[i] = log[j].result
                              ELSE log[k].result.args[i] = node.children[i]
            /\ last.out.value = log[Len(log)].result
            /\ log[Len(log)].node = <<>>

\* C22 witness: a tree of three levels whose root has a token beside its subtree
\* has been transformed, the grandchild's callback first and the root's last.
C22_Witness ==
    /\ last.op = "transform"
    /\ Len(last.input.children) = 2
    /\ IsTree(last.input.children[2])
    /\ ~IsTree(last.input.children[1])
    /\ Len(last.out.log) = 3
    /\ last.out.log[1].node = <<2, 1>>
    /\ last.out.log[2].node = <<2>>
    /\ last.out.log[3].node = <<>>
    /\ last.out.value.args[2].args[1].kind = "result"

(* ---------------------------------------------------------------------- *)
(* Rejected tokens                                                         *)
(* ---------------------------------------------------------------------- *)
\* the message the failure about the rejected token of the last call is to carry
ExpectedMessage ==
    LET value == last.input.interpolations[last.from[2]].value
    IN  IF last.input.kind = "template" /\ last.from[1] = "interp"
        THEN (IF value.kind = "Tree" THEN Message("Interpolated Tree", value.data)
              ELSE Message("Interpolated Python object", None))
        ELSE OriginalMessage

\* C23: when the backend rejects a token during TemplateEarleyFrontend.parse, the
\* caller gets the UnexpectedToken failure; for a template input and the token of
\* an interpolation its message says, before the original message, that an
\* interpolated object, or an interpolated tree of its label, is not valid there;
\* for a text, or a token of the literal text, the message is the original one.
C23_RejectedTokenMessage ==
    (last.op = "parse_rejected" /\ last.out.verified.ok) =>
        /\ last.out.exc = "UnexpectedToken"
        /\ last.out.message = ExpectedMessage

====
